---------------------------- MODULE Spec2Model ----------------------------
(***************************************************************************)
(* The batch notebook drivers of scripts/: run_all_notebooks.py,           *)
(* quick_test.py and run_notebooks_papermill.py.  One process runs one of  *)
(* the three scripts; the notebook executor (jupyter nbconvert, papermill) *)
(* and the file system are the environment, whose answers are drawn from   *)
(* small sets when the script asks for them.                               *)
(***************************************************************************)
EXTENDS Integers, Sequences, FiniteSets, TLC

VARIABLES
    script,        \* which script's main() this process runs
    pc,            \* position of main(): "main", "loop", "running", "done", "aborted"
    importable,    \* whether `import papermill` succeeds in this process
    prereq,        \* what the papermill prerequisite check found
    idx,           \* 1-based position of the for loop in notebooks
    results,       \* the results dict, in insertion order: <<name, status>> pairs
    existed,       \* what notebook_path.exists() answered, per item checked
    calls,         \* how many times the runner was invoked, per item
    inflight,      \* the executor call the runner is blocked on, or NoCall
    last,          \* what the last finished runner invocation returned and printed
    now,           \* the clock read by datetime.now(), in seconds
    start_time,    \* start_time of main()
    summary,       \* the counts main() computes after the loop
    report,        \* the lines of the summary report, in print order
    uncaught,      \* class of the exception that left main(), or "none"
    exit_code,     \* the process exit status, or NoExit while running
    dl,            \* download_datasets.py: the state of its main()
    nb             \* optimize_notebooks.py: the notebook being rewritten

batch == <<script, pc, importable, prereq, idx, results, existed, calls,
           inflight, last, now, start_time, summary, report, uncaught, exit_code>>

vars == <<batch, dl, nb>>

-----------------------------------------------------------------------------
(* Program constants. *)

\* notebooks = [...] of each main()
Notebooks ==
    << "regression.ipynb", "clustering.ipynb", "anomaly-detection.ipynb",
       "association.ipynb", "time-series-forecasting.ipynb" >>

N == Len(Notebooks)

\* run_notebook(notebook_path, timeout=1800) in run_all_notebooks.main
FullTimeout == 1800

\* run_notebook(notebook_path, timeout=600, ...) in quick_test.main
QuickTimeout == 600

\* e.stderr[-500:] if len(e.stderr) > 500 in quick_test.run_notebook
DiagBudget == 500

Scripts == {"run_all_notebooks", "quick_test", "run_notebooks_papermill"}

-----------------------------------------------------------------------------
(* Bounds of the environment. *)

\* a notebook has between 1 and MaxCells code cells
MaxCells == 2

\* seconds a cell may take when it ends: below both timeouts, above both
Durations == {QuickTimeout \div 2, FullTimeout + QuickTimeout}

\* a cell either ends after d seconds or never ends by itself
CellSet ==
    {[ends |-> TRUE, d |-> x] : x \in Durations} \cup {[ends |-> FALSE, d |-> 0]}

CellSeqs == UNION {[1..n -> CellSet] : n \in 1..MaxCells}

\* lengths of the output that precedes the final message on stderr
PadLens == {0, DiagBudget}

NoCall == [state |-> "none"]
NoExit == 0 - 1
NoSummary == [success_count |-> 0 - 1, failed_count |-> 0 - 1, skipped_count |-> 0 - 1]

-----------------------------------------------------------------------------
(* Text. A text is a sequence of characters. *)

Pad(n) == [i \in 1..n |-> "."]

TimeoutMsg == <<"t", "i", "m", "e", "o", "u", "t">>
ErrorMsg == <<"e", "r", "r", "o", "r">>
NoEntMsg == <<"E", "N", "O", "E", "N", "T">>
ExitMsg == <<"e", "x", "i", "t", "1">>
IoMsg == <<"E", "I", "O">>
ImportMsg == <<"n", "o", "m", "o", "d">>

\* s[-n:] of Python, for n > 0
LastChars(s, n) == IF Len(s) <= n THEN s ELSE SubSeq(s, Len(s) - n + 1, Len(s))

Mentions(text, msg) ==
    \E i \in 1..Len(text) : i + Len(msg) - 1 <= Len(text)
                            /\ SubSeq(text, i, i + Len(msg) - 1) = msg

-----------------------------------------------------------------------------
(* Python exception classes and the matching of an except clause. *)

Parent(c) ==
    CASE c = "CalledProcessError" -> "SubprocessError"
      [] c = "SubprocessError" -> "Exception"
      [] c = "FileNotFoundError" -> "OSError"
      [] c = "OSError" -> "Exception"
      [] c = "ImportError" -> "Exception"
      [] c = "PapermillExecutionError" -> "Exception"
      [] c = "Exception" -> "BaseException"
      [] OTHER -> "BaseException"

RECURSIVE IsInstance(_, _)
IsInstance(c, k) ==
    IF c = k THEN TRUE
    ELSE IF c = "BaseException" THEN FALSE
    ELSE IsInstance(Parent(c), k)

-----------------------------------------------------------------------------
(* The results dict: insertion-ordered, keys unique. *)

Keys(d) == [i \in 1..Len(d) |-> d[i][1]]

\* d[k] = v
DictSet(d, k, v) ==
    IF \E i \in 1..Len(d) : d[i][1] = k
    THEN [i \in 1..Len(d) |-> IF d[i][1] = k THEN <<k, v>> ELSE d[i]]
    ELSE Append(d, <<k, v>>)

\* sum(1 for status in results.values() if status == s)
CountStatus(d, s) == Cardinality({i \in 1..Len(d) : d[i][2] = s})

-----------------------------------------------------------------------------
(* The executors, as the scripts call them. *)

NbFaults == {"none", "exit_nonzero", "not_found", "io_error"}
PmFaults == {"none", "exec_error", "io_error"}

Outcome(exc, stderr, msg, elapsed, returns, exceeded) ==
    [state |-> "call", exc |-> exc, stderr |-> stderr, msg |-> msg,
     elapsed |-> elapsed, returns |-> returns, exceeded |-> exceeded]

\* the cells of one notebook under --ExecutePreprocessor.timeout=T: a cell
\* that has not ended after T seconds is interrupted and the run fails
RECURSIVE NbCells(_, _, _)
NbCells(cells, T, acc) ==
    IF cells = <<>> THEN [timedout |-> FALSE, elapsed |-> acc]
    ELSE LET c == Head(cells) IN
         IF ~c.ends \/ c.d > T
         THEN [timedout |-> TRUE, elapsed |-> acc + T]
         ELSE NbCells(Tail(cells), T, acc + c.d)

\* subprocess.run(["jupyter", "nbconvert", ..., "--ExecutePreprocessor.timeout=T",
\* path], check=True, capture_output=True, text=True)
NbconvertExecute(cells, T, fault, pad) ==
    IF fault = "not_found"
    THEN Outcome("FileNotFoundError", <<>>, NoEntMsg, 0, TRUE, FALSE)
    ELSE IF fault = "io_error"
    THEN Outcome("OSError", <<>>, IoMsg, 0, TRUE, FALSE)
    ELSE LET r == NbCells(cells, T, 0) IN
         IF r.timedout
         THEN Outcome("CalledProcessError", Pad(pad) \o TimeoutMsg, ExitMsg,
                      r.elapsed, TRUE, TRUE)
         ELSE IF fault = "exit_nonzero"
         THEN Outcome("CalledProcessError", Pad(pad) \o ErrorMsg, ExitMsg,
                      r.elapsed, TRUE, FALSE)
         ELSE Outcome("none", <<>>, <<>>, r.elapsed, TRUE, FALSE)

RECURSIVE SumCells(_)
SumCells(cells) ==
    IF cells = <<>> THEN 0 ELSE Head(cells).d + SumCells(Tail(cells))

\* import papermill as pm; pm.execute_notebook(input, output, kernel_name=...,
\* progress_bar=True, request_save_on_cell_execute=True): no timeout is passed,
\* so a cell runs until it ends by itself
PapermillExecute(cells, fault, pad, imp) ==
    IF ~imp
    THEN Outcome("ImportError", <<>>, ImportMsg, 0, TRUE, FALSE)
    ELSE IF \E i \in 1..Len(cells) : ~cells[i].ends
    THEN Outcome("none", <<>>, <<>>, 0, FALSE, TRUE)
    ELSE IF fault = "exec_error"
    THEN Outcome("PapermillExecutionError", <<>>, Pad(pad) \o ErrorMsg,
                 SumCells(cells), TRUE, FALSE)
    ELSE IF fault = "io_error"
    THEN Outcome("OSError", <<>>, IoMsg, SumCells(cells), TRUE, FALSE)
    ELSE Outcome("none", <<>>, <<>>, SumCells(cells), TRUE, FALSE)

-----------------------------------------------------------------------------
(* The runner invocations: what each returns and prints for an executor      *)
(* outcome.  raised is the class of an exception no except clause matched.  *)

Returned(ret, diag) == [ret |-> ret, raised |-> "none", diag |-> diag]
Propagated(exc) == [ret |-> FALSE, raised |-> exc, diag |-> <<>>]

\* run_notebook with the except Exception clause missing
RunAllRunNotebookNarrow(out) ==
    IF out.exc = "none" THEN Returned(TRUE, <<>>)
    ELSE IF IsInstance(out.exc, "CalledProcessError")
    THEN Returned(FALSE, out.stderr)
    ELSE Propagated(out.exc)

\* run_all_notebooks.run_notebook
RunAllRunNotebook(out) ==
    IF out.exc = "none" THEN Returned(TRUE, <<>>)
    ELSE IF IsInstance(out.exc, "CalledProcessError")
    THEN Returned(FALSE, out.stderr)
    ELSE IF IsInstance(out.exc, "Exception") THEN Returned(FALSE, out.msg)
    ELSE Propagated(out.exc)

\* quick_test.run_notebook
QuickRunNotebook(out) ==
    IF out.exc = "none" THEN Returned(TRUE, <<>>)
    ELSE IF IsInstance(out.exc, "CalledProcessError")
    THEN Returned(FALSE, IF Len(out.stderr) > DiagBudget
                         THEN LastChars(out.stderr, DiagBudget)
                         ELSE out.stderr)
    ELSE IF IsInstance(out.exc, "Exception") THEN Returned(FALSE, out.msg)
    ELSE Propagated(out.exc)

\* run_notebooks_papermill.run_notebook_papermill
RunNotebookPapermill(out) ==
    IF out.exc = "none" THEN Returned(TRUE, <<>>)
    ELSE IF IsInstance(out.exc, "Exception") THEN Returned(FALSE, out.msg)
    ELSE Propagated(out.exc)

-----------------------------------------------------------------------------
(* The summary report. *)

\* emoji = "ok" if SUCCESS else "cross" if FAILED else "warning"
Emoji(status) ==
    IF status = "SUCCESS" THEN "check"
    ELSE IF status = "FAILED" THEN "cross" ELSE "warning"

Line(e) == [kind |-> "item", emoji |-> Emoji(e[2]), name |-> e[1], status |-> e[2]]
WithStatus(d, s) == SelectSeq(d, LAMBDA e : e[2] = s)

\* the item lines printed grouped by outcome instead of in dict order
ItemLinesGrouped(d) ==
    LET g == WithStatus(d, "SUCCESS") \o WithStatus(d, "FAILED") \o WithStatus(d, "SKIPPED")
    IN [i \in 1..Len(g) |-> Line(g[i])]

\* for notebook, status in results.items(): print(f"{emoji} {notebook}: {status}")
ItemLines(d) ==
    [i \in 1..Len(d) |->
        [kind |-> "item", emoji |-> Emoji(d[i][2]), name |-> d[i][1], status |-> d[i][2]]]

CountLine(label, n) == [kind |-> "count", label |-> label, n |-> n, of |-> N]
TimeLine(d) == [kind |-> "time", duration |-> d]

\* the other scripts are not running
NoDownload == [pc |-> "idle"]
NoNotebook == [pc |-> "idle"]

NoLast == [item |-> 0, exc |-> "none", ret |-> FALSE, diag |-> <<>>, exceeded |-> FALSE]

Init ==
    /\ script \in Scripts
    /\ pc = "main"
    /\ importable \in (IF script = "run_notebooks_papermill" THEN BOOLEAN ELSE {FALSE})
    /\ prereq = "unchecked"
    /\ idx = 1
    /\ results = <<>>
    /\ existed = <<>>
    /\ calls = [i \in 1..N |-> 0]
    /\ inflight = NoCall
    /\ last = NoLast
    /\ now = 0
    /\ start_time = 0
    /\ summary = NoSummary
    /\ report = <<>>
    /\ uncaught = "none"
    /\ exit_code = NoExit
    /\ dl = NoDownload
    /\ nb = NoNotebook

\* the runner returned r for item idx after out.elapsed seconds: main records
\* "SUCCESS" if success else "FAILED", or the exception leaves main
Record(r, out) ==
    IF r.raised # "none"
    THEN /\ uncaught' = r.raised
         /\ pc' = "aborted"
         /\ exit_code' = 1
         /\ UNCHANGED <<idx, results, last>>
    ELSE /\ results' = DictSet(results, Notebooks[idx], IF r.ret THEN "SUCCESS" ELSE "FAILED")
         /\ last' = [item |-> idx, exc |-> out.exc, ret |-> r.ret, diag |-> r.diag,
                       exceeded |-> out.exceeded]
         /\ idx' = idx + 1
         /\ pc' = "loop"
         /\ UNCHANGED <<uncaught, exit_code>>

-----------------------------------------------------------------------------
(* run_all_notebooks.main *)

RunAllStart ==
    /\ script = "run_all_notebooks" /\ pc = "main"
    /\ results' = <<>>
    /\ start_time' = now
    /\ idx' = 1
    /\ pc' = "loop"
    /\ UNCHANGED <<dl, nb, script, importable, prereq, existed, calls, inflight, last, now,
                   summary, report, uncaught, exit_code>>

\* RunAllSkip without the continue: the missing notebook is still run
RunAllSkipNoContinue ==
    /\ script = "run_all_notebooks" /\ pc = "loop" /\ idx <= N
    /\ existed' = Append(existed, FALSE)
    /\ results' = DictSet(results, Notebooks[idx], "SKIPPED")
    /\ calls' = [calls EXCEPT ![idx] = @ + 1]
    /\ \E cells \in CellSeqs, fault \in NbFaults, pad \in PadLens :
          inflight' = NbconvertExecute(cells, FullTimeout, fault, pad)
    /\ pc' = "running"
    /\ UNCHANGED <<dl, nb, script, importable, prereq, idx, last, now, start_time,
                   summary, report, uncaught, exit_code>>

\* RunAllSkip without the assignment to results
RunAllSkipNoRecord ==
    /\ script = "run_all_notebooks" /\ pc = "loop" /\ idx <= N
    /\ existed' = Append(existed, FALSE)
    /\ idx' = idx + 1
    /\ UNCHANGED <<dl, nb, script, pc, importable, prereq, results, calls, inflight, last, now,
                   start_time, summary, report, uncaught, exit_code>>

\* if not notebook_path.exists(): results[name] = "SKIPPED"; continue
RunAllSkip ==
    /\ script = "run_all_notebooks" /\ pc = "loop" /\ idx <= N
    /\ existed' = Append(existed, FALSE)
    /\ results' = DictSet(results, Notebooks[idx], "SKIPPED")
    /\ idx' = idx + 1
    /\ UNCHANGED <<dl, nb, script, pc, importable, prereq, calls, inflight, last, now,
                   start_time, summary, report, uncaught, exit_code>>

\* RunAllCall starting the executor without waiting for it
RunAllCallNoWait ==
    /\ script = "run_all_notebooks" /\ pc = "loop" /\ idx <= N
    /\ existed' = Append(existed, TRUE)
    /\ calls' = [calls EXCEPT ![idx] = @ + 1]
    /\ \E cells \in CellSeqs, fault \in NbFaults, pad \in PadLens :
          inflight' = NbconvertExecute(cells, FullTimeout, fault, pad)
    /\ idx' = idx + 1
    /\ UNCHANGED <<dl, nb, script, pc, importable, prereq, results, last, now, start_time,
                   summary, report, uncaught, exit_code>>

\* success = run_notebook(notebook_path, timeout=1800): the call
RunAllCall ==
    /\ script = "run_all_notebooks" /\ pc = "loop" /\ idx <= N
    /\ existed' = Append(existed, TRUE)
    /\ calls' = [calls EXCEPT ![idx] = @ + 1]
    /\ \E cells \in CellSeqs, fault \in NbFaults, pad \in PadLens :
          inflight' = NbconvertExecute(cells, FullTimeout, fault, pad)
    /\ pc' = "running"
    /\ UNCHANGED <<dl, nb, script, importable, prereq, idx, results, last, now, start_time,
                   summary, report, uncaught, exit_code>>

\* ... its return, and results[name] = "SUCCESS" if success else "FAILED"
RunAllReturn ==
    /\ script = "run_all_notebooks" /\ pc = "running" /\ inflight.returns
    /\ Record(RunAllRunNotebook(inflight), inflight)
    /\ now' = now + inflight.elapsed
    /\ inflight' = NoCall
    /\ UNCHANGED <<dl, nb, script, importable, prereq, existed, calls, start_time, summary, report>>

\* RunAllSummary exiting 1 unless every notebook succeeded
RunAllSummaryStrict ==
    /\ script = "run_all_notebooks" /\ pc = "loop" /\ idx > N
    /\ LET success_count == CountStatus(results, "SUCCESS")
           failed_count == CountStatus(results, "FAILED")
           skipped_count == CountStatus(results, "SKIPPED")
       IN /\ summary' = [success_count |-> success_count, failed_count |-> failed_count,
                         skipped_count |-> skipped_count]
          /\ report' = ItemLines(results) \o
                       << CountLine("Successful", success_count),
                          CountLine("Failed", failed_count),
                          CountLine("Skipped", skipped_count),
                          TimeLine(now - start_time) >>
          /\ exit_code' = IF success_count < N THEN 1 ELSE 0
    /\ pc' = "done"
    /\ UNCHANGED <<dl, nb, script, importable, prereq, idx, results, existed, calls, inflight,
                   last, now, start_time, uncaught>>

\* the summary and sys.exit
RunAllSummary ==
    /\ script = "run_all_notebooks" /\ pc = "loop" /\ idx > N
    /\ LET success_count == CountStatus(results, "SUCCESS")
           failed_count == CountStatus(results, "FAILED")
           skipped_count == CountStatus(results, "SKIPPED")
       IN /\ summary' = [success_count |-> success_count, failed_count |-> failed_count,
                         skipped_count |-> skipped_count]
          /\ report' = ItemLines(results) \o
                       << CountLine("Successful", success_count),
                          CountLine("Failed", failed_count),
                          CountLine("Skipped", skipped_count),
                          TimeLine(now - start_time) >>
          /\ exit_code' = IF failed_count > 0 THEN 1 ELSE 0
    /\ pc' = "done"
    /\ UNCHANGED <<dl, nb, script, importable, prereq, idx, results, existed, calls, inflight,
                   last, now, start_time, uncaught>>

-----------------------------------------------------------------------------
(* quick_test.main *)

QuickStart ==
    /\ script = "quick_test" /\ pc = "main"
    /\ results' = <<>>
    /\ start_time' = now
    /\ idx' = 1
    /\ pc' = "loop"
    /\ UNCHANGED <<dl, nb, script, importable, prereq, existed, calls, inflight, last, now,
                   summary, report, uncaught, exit_code>>

\* if not notebook_path.exists(): results[name] = "SKIPPED"; continue
QuickSkip ==
    /\ script = "quick_test" /\ pc = "loop" /\ idx <= N
    /\ existed' = Append(existed, FALSE)
    /\ results' = DictSet(results, Notebooks[idx], "SKIPPED")
    /\ idx' = idx + 1
    /\ UNCHANGED <<dl, nb, script, pc, importable, prereq, calls, inflight, last, now,
                   start_time, summary, report, uncaught, exit_code>>

\* success = run_notebook(notebook_path, timeout=600, allow_errors=False): the call
QuickCall ==
    /\ script = "quick_test" /\ pc = "loop" /\ idx <= N
    /\ existed' = Append(existed, TRUE)
    /\ calls' = [calls EXCEPT ![idx] = @ + 1]
    /\ \E cells \in CellSeqs, fault \in NbFaults, pad \in PadLens :
          inflight' = NbconvertExecute(cells, QuickTimeout, fault, pad)
    /\ pc' = "running"
    /\ UNCHANGED <<dl, nb, script, importable, prereq, idx, results, last, now, start_time,
                   summary, report, uncaught, exit_code>>

\* ... its return, and results[name] = "SUCCESS" if success else "FAILED"
QuickReturn ==
    /\ script = "quick_test" /\ pc = "running" /\ inflight.returns
    /\ Record(QuickRunNotebook(inflight), inflight)
    /\ now' = now + inflight.elapsed
    /\ inflight' = NoCall
    /\ UNCHANGED <<dl, nb, script, importable, prereq, existed, calls, start_time, summary, report>>

\* the summary and sys.exit: no skipped count is computed or printed
QuickSummary ==
    /\ script = "quick_test" /\ pc = "loop" /\ idx > N
    /\ LET success_count == CountStatus(results, "SUCCESS")
           failed_count == CountStatus(results, "FAILED")
       IN /\ summary' = [success_count |-> success_count, failed_count |-> failed_count]
          /\ report' = ItemLines(results) \o
                       << CountLine("Passed", success_count),
                          CountLine("Failed", failed_count),
                          TimeLine(now - start_time) >>
          /\ exit_code' = IF failed_count > 0 THEN 1 ELSE 0
    /\ pc' = "done"
    /\ UNCHANGED <<dl, nb, script, importable, prereq, idx, results, existed, calls, inflight,
                   last, now, start_time, uncaught>>

-----------------------------------------------------------------------------
(* run_notebooks_papermill.main *)

\* try: import papermill; return True  except ImportError: return False
CheckPapermillInstalled == importable

InstallOutcomes == {"ok", "exit_nonzero", "uv_not_found"}

\* subprocess.run(["uv", "add", "papermill"], check=True): True, or False on
\* CalledProcessError; any other exception is not caught
InstallPapermill(o) ==
    IF o = "ok" THEN Returned(TRUE, <<>>)
    ELSE IF o = "exit_nonzero" THEN Returned(FALSE, <<>>)
    ELSE Propagated("FileNotFoundError")

\* PapermillStart without the sys.exit(1) after a failed install
PapermillStartNoExit ==
    /\ script = "run_notebooks_papermill" /\ pc = "main"
    /\ IF CheckPapermillInstalled
       THEN /\ prereq' = "present"
            /\ UNCHANGED importable
       ELSE \E o \in InstallOutcomes :
              LET r == InstallPapermill(o) IN
              IF r.raised = "none" /\ r.ret
              THEN prereq' = "installed" /\ importable' \in BOOLEAN
              ELSE prereq' = "failed" /\ UNCHANGED importable
    /\ pc' = "loop"
    /\ results' = <<>>
    /\ start_time' = now
    /\ idx' = 1
    /\ UNCHANGED <<dl, nb, script, existed, calls, inflight, last, now, summary, report,
                   uncaught, exit_code>>

\* if not check_papermill_installed(): if not install_papermill(): sys.exit(1)
\* and, when that passes, results = {}; start_time = datetime.now()
PapermillStart ==
    /\ script = "run_notebooks_papermill" /\ pc = "main"
    /\ IF CheckPapermillInstalled
       THEN /\ prereq' = "present"
            /\ pc' = "loop"
            /\ UNCHANGED <<importable, uncaught, exit_code>>
       ELSE \E o \in InstallOutcomes :
              LET r == InstallPapermill(o) IN
              IF r.raised # "none"
              THEN /\ prereq' = "failed"
                   /\ uncaught' = r.raised
                   /\ pc' = "aborted"
                   /\ exit_code' = 1
                   /\ UNCHANGED importable
              ELSE IF ~r.ret
              THEN /\ prereq' = "failed"
                   /\ pc' = "aborted"
                   /\ exit_code' = 1
                   /\ UNCHANGED <<importable, uncaught>>
              ELSE /\ prereq' = "installed"
                   /\ importable' \in BOOLEAN
                   /\ pc' = "loop"
                   /\ UNCHANGED <<uncaught, exit_code>>
    /\ results' = <<>>
    /\ start_time' = now
    /\ idx' = 1
    /\ UNCHANGED <<dl, nb, script, existed, calls, inflight, last, now, summary, report>>

\* if not notebook_path.exists(): results[name] = "SKIPPED"; continue
PapermillSkip ==
    /\ script = "run_notebooks_papermill" /\ pc = "loop" /\ idx <= N
    /\ existed' = Append(existed, FALSE)
    /\ results' = DictSet(results, Notebooks[idx], "SKIPPED")
    /\ idx' = idx + 1
    /\ UNCHANGED <<dl, nb, script, pc, importable, prereq, calls, inflight, last, now,
                   start_time, summary, report, uncaught, exit_code>>

\* success = run_notebook_papermill(notebook_path): the call
PapermillCall ==
    /\ script = "run_notebooks_papermill" /\ pc = "loop" /\ idx <= N
    /\ existed' = Append(existed, TRUE)
    /\ calls' = [calls EXCEPT ![idx] = @ + 1]
    /\ \E cells \in CellSeqs, fault \in PmFaults, pad \in PadLens :
          inflight' = PapermillExecute(cells, fault, pad, importable)
    /\ pc' = "running"
    /\ UNCHANGED <<dl, nb, script, importable, prereq, idx, results, last, now, start_time,
                   summary, report, uncaught, exit_code>>

\* PapermillReturn with the break on the first failure left in
PapermillReturnBreak ==
    /\ script = "run_notebooks_papermill" /\ pc = "running" /\ inflight.returns
    /\ LET r == RunNotebookPapermill(inflight) IN
         /\ results' = DictSet(results, Notebooks[idx], IF r.ret THEN "SUCCESS" ELSE "FAILED")
         /\ last' = [item |-> idx, exc |-> inflight.exc, ret |-> r.ret, diag |-> r.diag,
                     exceeded |-> inflight.exceeded]
         /\ idx' = IF r.ret THEN idx + 1 ELSE N + 1
    /\ pc' = "loop"
    /\ now' = now + inflight.elapsed
    /\ inflight' = NoCall
    /\ UNCHANGED <<dl, nb, script, importable, prereq, existed, calls, start_time, summary, report,
                   uncaught, exit_code>>

\* ... its return, and results[name] = "SUCCESS" if success else "FAILED";
\* the break on the first failure is commented out
PapermillReturn ==
    /\ script = "run_notebooks_papermill" /\ pc = "running" /\ inflight.returns
    /\ Record(RunNotebookPapermill(inflight), inflight)
    /\ now' = now + inflight.elapsed
    /\ inflight' = NoCall
    /\ UNCHANGED <<dl, nb, script, importable, prereq, existed, calls, start_time, summary, report>>

\* the summary and sys.exit
PapermillSummary ==
    /\ script = "run_notebooks_papermill" /\ pc = "loop" /\ idx > N
    /\ LET success_count == CountStatus(results, "SUCCESS")
           failed_count == CountStatus(results, "FAILED")
           skipped_count == CountStatus(results, "SKIPPED")
       IN /\ summary' = [success_count |-> success_count, failed_count |-> failed_count,
                         skipped_count |-> skipped_count]
          /\ report' = ItemLines(results) \o
                       << CountLine("Successful", success_count),
                          CountLine("Failed", failed_count),
                          CountLine("Skipped", skipped_count),
                          TimeLine(now - start_time) >>
          /\ exit_code' = IF failed_count > 0 THEN 1 ELSE 0
    /\ pc' = "done"
    /\ UNCHANGED <<dl, nb, script, importable, prereq, idx, results, existed, calls, inflight,
                   last, now, start_time, uncaught>>

-----------------------------------------------------------------------------
Next ==
    \/ RunAllStart \/ RunAllSkip \/ RunAllCall \/ RunAllReturn \/ RunAllSummary
    \/ QuickStart \/ QuickSkip \/ QuickCall \/ QuickReturn \/ QuickSummary
    \/ PapermillStart \/ PapermillSkip \/ PapermillCall \/ PapermillReturn
    \/ PapermillSummary

Spec == Init /\ [][Next]_vars

\* main() is one sequential thread: a step it can take, it takes
FairSpec == Spec /\ WF_vars(Next)

-----------------------------------------------------------------------------
(* download_datasets.py *)

\* datasets = [...] of main(): the Kaggle name, the directory under datasets/
\* and the description of each
Datasets ==
    << [name |-> "camnugent/california-housing-prices", dir |-> "regression",
        desc |-> "Regression: California Housing Prices"],
       [name |-> "vjchoudhary7/customer-segmentation-tutorial-in-python", dir |-> "clustering",
        desc |-> "Clustering: Customer Segmentation"],
       [name |-> "mlg-ulb/creditcardfraud", dir |-> "anomaly",
        desc |-> "Anomaly Detection: Credit Card Fraud"],
       [name |-> "heeraldedhia/groceries-dataset", dir |-> "association",
        desc |-> "Association Rules: Groceries"],
       [name |-> "robikscube/hourly-energy-consumption", dir |-> "timeseries",
        desc |-> "Time Series: Hourly Energy Consumption"] >>

\* what can happen to one download: the kaggle command succeeds, exits
\* non-zero, cannot be started because there is no kaggle executable, or the
\* output directory cannot be created
DownloadFaults == {"ok", "exit_nonzero", "kaggle_not_found", "mkdir_error"}

\* run_command: True, or False on CalledProcessError; nothing else is caught
RunCommand(exc) ==
    IF exc = "none" THEN Returned(TRUE, <<>>)
    ELSE IF IsInstance(exc, "CalledProcessError") THEN Returned(FALSE, ErrorMsg)
    ELSE Propagated(exc)

\* download_dataset: output_dir.mkdir(parents=True, exist_ok=True), then
\* run_command(["kaggle", "datasets", "download", ...])
DownloadDataset(fault) ==
    IF fault = "mkdir_error" THEN Propagated("OSError")
    ELSE RunCommand(CASE fault = "ok" -> "none"
                      [] fault = "exit_nonzero" -> "CalledProcessError"
                      [] OTHER -> "FileNotFoundError")

\* the batch scripts are not running
BatchIdle ==
    /\ script = "none"
    /\ pc = "idle"
    /\ importable = FALSE
    /\ prereq = "unchecked"
    /\ idx = 1
    /\ results = <<>>
    /\ existed = <<>>
    /\ calls = [i \in 1..N |-> 0]
    /\ inflight = NoCall
    /\ last = NoLast
    /\ now = 0
    /\ start_time = 0
    /\ summary = NoSummary
    /\ report = <<>>
    /\ uncaught = "none"
    /\ exit_code = NoExit

DlInit ==
    /\ BatchIdle
    /\ nb = NoNotebook
    /\ dl = [pc |-> "main", i |-> 1, success_count |-> 0, failed |-> <<>>,
             attempts |-> <<>>, uncaught |-> "none", exit_code |-> NoExit]

\* success_count = 0; failed = []
DlStart ==
    /\ dl.pc = "main"
    /\ dl' = [dl EXCEPT !.pc = "loop", !.i = 1, !.success_count = 0, !.failed = <<>>]
    /\ UNCHANGED <<batch, nb>>

\* one iteration of for dataset in datasets
DlDownload ==
    /\ dl.pc = "loop" /\ dl.i <= Len(Datasets)
    /\ \E fault \in DownloadFaults :
          LET dataset == Datasets[dl.i]
              r == DownloadDataset(fault)
              tried == Append(dl.attempts, dataset.name)
          IN IF r.raised # "none"
             THEN dl' = [dl EXCEPT !.attempts = tried, !.uncaught = r.raised,
                                   !.pc = "aborted", !.exit_code = 1]
             ELSE IF r.ret
             THEN dl' = [dl EXCEPT !.attempts = tried, !.i = @ + 1,
                                   !.success_count = @ + 1]
             ELSE dl' = [dl EXCEPT !.attempts = tried, !.i = @ + 1,
                                   !.failed = Append(@, dataset.desc)]
    /\ UNCHANGED <<batch, nb>>

\* the summary: sys.exit(1) if failed, else main returns
DlSummary ==
    /\ dl.pc = "loop" /\ dl.i > Len(Datasets)
    /\ dl' = [dl EXCEPT !.pc = "done",
                        !.exit_code = IF dl.failed # <<>> THEN 1 ELSE 0]
    /\ UNCHANGED <<batch, nb>>

DlNext == DlStart \/ DlDownload \/ DlSummary

DlSpec == DlInit /\ [][DlNext]_vars

-----------------------------------------------------------------------------
(* optimize_notebooks.py.  A cell source is a sequence of pieces of text;   *)
(* "x in source" is the search for the pieces of x in a row, the alphabets  *)
(* being such that no searched text straddles two pieces otherwise.         *)

\* cell sources have at most MaxLen pieces
MaxLen == 4

\* the script is run at most MaxRuns times on the same notebooks
MaxRuns == 2

NL == "\n"
SP == " "

ClImport == <<"from pycaret.clustering import *">>
ClSetup == <<"s = setup(">>
Fold == <<"fold=">>
\* 's = setup(data, session_id = 123)'
ClOld == <<"s = setup(", "data, session_id = 123)">>
\* 's = setup(data, fold=3, session_id=123)  # fold=3 for faster execution'
ClNew == <<"s = setup(", "data, ", "fold=", "3, session_id=123)  # ", "fold=",
           "3 for faster execution">>

TsSetup == <<"ts_setup = setup(">>
TsFh == <<"fh=24">>
TsFhComma == <<"fh=24", ",">>
\* 'fold=3,  # Reduced from default 10 for faster execution'
TsFoldLine == <<"fold=", "3", ",", "  # Reduced from default 10 for faster execution">>

ClPieces == {"from pycaret.clustering import *", "s = setup(", "data, session_id = 123)",
             "fold=", NL}
TsPieces == {"ts_setup = setup(", "fh=24", ",", "fold=", NL, SP}

Texts(pieces) == UNION {[1..n -> pieces] : n \in 0..MaxLen}

\* source.replace(old, new): every occurrence, left to right, not overlapping
RECURSIVE Replace(_, _, _)
Replace(src, old, new) ==
    IF Len(src) < Len(old) THEN src
    ELSE IF SubSeq(src, 1, Len(old)) = old
    THEN new \o Replace(SubSeq(src, Len(old) + 1, Len(src)), old, new)
    ELSE <<Head(src)>> \o Replace(Tail(src), old, new)

\* source.split('\n')
RECURSIVE SplitLines(_, _)
SplitLines(src, cur) ==
    IF src = <<>> THEN <<cur>>
    ELSE IF Head(src) = NL THEN <<cur>> \o SplitLines(Tail(src), <<>>)
    ELSE SplitLines(Tail(src), Append(cur, Head(src)))

\* '\n'.join(lines)
RECURSIVE JoinLines(_)
JoinLines(lines) ==
    IF lines = <<>> THEN <<>>
    ELSE IF Len(lines) = 1 THEN lines[1]
    ELSE lines[1] \o <<NL>> \o JoinLines(Tail(lines))

\* len(line) - len(line.lstrip())
RECURSIVE Indent(_)
Indent(line) ==
    IF line # <<>> /\ Head(line) = SP THEN 1 + Indent(Tail(line)) ELSE 0

\* new_lines: every line, and after a line with 'fh=24,' the fold=3 line
RECURSIVE NewLines(_)
NewLines(lines) ==
    IF lines = <<>> THEN <<>>
    ELSE LET line == Head(lines) IN
         (IF Mentions(line, TsFhComma)
          THEN <<line, [i \in 1..Indent(line) |-> SP] \o TsFoldLine>>
          ELSE <<line>>) \o NewLines(Tail(lines))

\* the body of the loop over the cells of clustering.ipynb
ClusteringCell(cell) ==
    IF /\ cell.cell_type = "code"
       /\ Mentions(cell.source, ClImport)
       /\ Mentions(cell.source, ClSetup)
       /\ ~Mentions(cell.source, Fold)
    THEN [cell EXCEPT !.source = Replace(cell.source, ClOld, ClNew)]
    ELSE cell

\* TimeSeriesCell without the test that 'fold=' is not in the source
TimeSeriesCellNoFoldTest(cell) ==
    IF /\ cell.cell_type = "code"
       /\ Mentions(cell.source, TsSetup)
       /\ Mentions(cell.source, TsFh)
    THEN [cell EXCEPT !.source = JoinLines(NewLines(SplitLines(cell.source, <<>>)))]
    ELSE cell

\* the body of the loop over the cells of time-series-forecasting.ipynb
TimeSeriesCell(cell) ==
    IF /\ cell.cell_type = "code"
       /\ Mentions(cell.source, TsSetup)
       /\ ~Mentions(cell.source, Fold)
       /\ Mentions(cell.source, TsFh)
    THEN [cell EXCEPT !.source = JoinLines(NewLines(SplitLines(cell.source, <<>>)))]
    ELSE cell

Cells(pieces) == [cell_type : {"code", "markdown"}, source : Texts(pieces)]

\* the setup cells of the notebooks as the repository ships them
ClShipped ==
    [cell_type |-> "code",
     source |-> <<"from pycaret.clustering import *", NL,
                  "s = setup(", "data, session_id = 123)">>]
TsShipped ==
    [cell_type |-> "code",
     source |-> <<"ts_setup = setup(", NL, SP, SP, "fh=24", ",", NL, SP, SP,
                  "session_id=123", NL, ")">>]

\* a notebook is one cell, or one cell and then the shipped setup cell
Books(pieces, shipped) ==
    {<<c>> : c \in Cells(pieces)} \cup {<<c, shipped>> : c \in Cells(pieces)}

\* the script starts on the two notebooks as found on disk
FirstRun(cl, ts) ==
    [pc |-> "clustering", runs |-> 0, clustering |-> cl, timeseries |-> ts,
     orig |-> [clustering |-> cl, timeseries |-> ts]]

OptInit ==
    /\ BatchIdle
    /\ dl = NoDownload
    /\ nb \in {FirstRun(cl, <<TsShipped>>) : cl \in Books(ClPieces, ClShipped)}
              \cup {FirstRun(<<ClShipped>>, ts) : ts \in Books(TsPieces, TsShipped)}

\* nb = nbformat.read(clustering.ipynb); for cell in nb.cells: ...; nbformat.write
OptClustering ==
    /\ nb.pc = "clustering"
    /\ nb' = [nb EXCEPT !.pc = "timeseries",
                        !.clustering = [i \in 1..Len(@) |-> ClusteringCell(@[i])]]
    /\ UNCHANGED <<batch, dl>>

\* the same for time-series-forecasting.ipynb, and the end of the script
OptTimeSeries ==
    /\ nb.pc = "timeseries"
    /\ nb' = [nb EXCEPT !.pc = "end", !.runs = @ + 1,
                        !.timeseries = [i \in 1..Len(@) |-> TimeSeriesCell(@[i])]]
    /\ UNCHANGED <<batch, dl>>

\* the script is run again on the notebooks it wrote
OptRunAgain ==
    /\ nb.pc = "end" /\ nb.runs < MaxRuns
    /\ nb' = [nb EXCEPT !.pc = "clustering"]
    /\ UNCHANGED <<batch, dl>>

OptNext == OptClustering \/ OptTimeSeries \/ OptRunAgain

OptSpec == OptInit /\ [][OptNext]_vars

-----------------------------------------------------------------------------
(* Properties. *)

StatusOf(i) == results[i][2]
Recorded(i) == i <= Len(results) /\ results[i][1] = Notebooks[i]

\* C1: a notebook whose path did not exist when it was checked is recorded as
\* SKIPPED and the runner is never invoked for it; a notebook whose path
\* existed has had the runner invoked exactly once; a notebook not yet checked
\* has had no invocation.
C1_SkippedNeverRun ==
    /\ \A i \in 1..Len(existed) :
          IF existed[i]
          THEN calls[i] = 1
          ELSE calls[i] = 0 /\ Recorded(i) /\ StatusOf(i) = "SKIPPED"
    /\ \A i \in (Len(existed) + 1)..N : calls[i] = 0

C1_Witness ==
    /\ pc = "done"
    /\ existed[1] /\ ~existed[3] /\ existed[4]
    /\ calls[3] = 0 /\ calls[4] = 1
    /\ StatusOf(3) = "SKIPPED"

\* the existence check of the item the loop is at, skipping or running it
CheckNextItem ==
    \/ RunAllSkip \/ RunAllCall
    \/ QuickSkip \/ QuickCall
    \/ PapermillSkip \/ PapermillCall

\* C2: fail-forward. Whatever outcomes are recorded for items 1..k, the loop
\* is then at item k+1: for k < N the process has not exited and its step is
\* the existence check of item k+1; the summary is reached only with an
\* outcome recorded for every declared notebook.
C2_FailForward ==
    /\ pc = "loop" => idx = Len(results) + 1
    /\ (pc = "loop" /\ Len(results) < N) =>
          /\ exit_code = NoExit
          /\ ENABLED CheckNextItem
          /\ ~ENABLED (RunAllSummary \/ QuickSummary \/ PapermillSummary)
    /\ pc = "done" => Len(results) = N

C2_Witness ==
    /\ pc = "done"
    /\ Len(results) = N
    /\ StatusOf(1) = "FAILED" /\ StatusOf(2) = "SKIPPED" /\ StatusOf(3) = "FAILED"
    /\ StatusOf(N) = "SUCCESS"

\* C3: a batch that reached the summary exits with 0 exactly when no outcome
\* is FAILED and with 1 when some outcome is FAILED, whatever is SKIPPED.
C3_ExitCodeLaw ==
    pc = "done" =>
        /\ (exit_code = 0) <=> (\A i \in 1..Len(results) : StatusOf(i) # "FAILED")
        /\ (\E i \in 1..Len(results) : StatusOf(i) = "FAILED") => exit_code = 1
        /\ exit_code \in {0, 1}

C3_Witness ==
    /\ pc = "done"
    /\ Len(results) = N
    /\ \A i \in 1..N : StatusOf(i) = "SKIPPED"
    /\ exit_code = 0

\* C4: at the end of a batch every declared notebook has exactly one outcome,
\* each one of SUCCESS, FAILED, SKIPPED, and the counts add up to the number
\* of notebooks (quick_test computes no skipped_count: its two counts and the
\* number of SKIPPED outcomes add up).
C4_OneOutcomeEach ==
    pc = "done" =>
        /\ Keys(results) = Notebooks
        /\ \A i \in 1..Len(results) : StatusOf(i) \in {"SUCCESS", "FAILED", "SKIPPED"}
        /\ summary.success_count + summary.failed_count
             + (IF script = "quick_test"
                THEN Cardinality({i \in 1..Len(results) : StatusOf(i) = "SKIPPED"})
                ELSE summary.skipped_count) = N

C4_Witness ==
    /\ pc = "done"
    /\ script = "run_notebooks_papermill"
    /\ summary.success_count = 2 /\ summary.failed_count = 2 /\ summary.skipped_count = 1

\* C5: outcomes are recorded in declaration order, and the item lines of the
\* report come in that order with the recorded outcomes.
C5_DeclarationOrder ==
    /\ Keys(results) = SubSeq(Notebooks, 1, Len(results))
    /\ pc = "done" =>
          /\ Len(report) >= N
          /\ \A i \in 1..N :
                /\ report[i].kind = "item"
                /\ report[i].name = Notebooks[i]
                /\ Recorded(i) /\ report[i].status = StatusOf(i)

C5_Witness ==
    /\ pc = "done"
    /\ StatusOf(1) = "SKIPPED" /\ StatusOf(2) = "FAILED" /\ StatusOf(3) = "SUCCESS"
    /\ report[1].status = "SKIPPED" /\ report[3].status = "SUCCESS"

\* C6: an item whose execution exceeds the timeout does not block the runner
\* invocation, and when the invocation has returned the item is FAILED with a
\* diagnostic that mentions the timeout.
C6_TimeoutIsFailure ==
    /\ (inflight.state = "call" /\ inflight.exceeded) => inflight.returns
    /\ (last.item > 0 /\ last.exceeded) =>
          /\ ~last.ret
          /\ Recorded(last.item) /\ StatusOf(last.item) = "FAILED"
          /\ Mentions(last.diag, TimeoutMsg)

\* C7: a runner invocation that ends always returns to the driver: True
\* (SUCCESS) exactly when the executor raised nothing, False (FAILED) for every
\* fault, and no exception leaves the loop.
C7_RunnerNeverRaises ==
    [][ (pc = "running" /\ pc' # "running") =>
            /\ pc' = "loop" /\ uncaught' = "none"
            /\ Len(results') >= idx
            /\ (inflight.exc = "none") <=> (results'[idx][2] = "SUCCESS")
            /\ (inflight.exc # "none") <=> (results'[idx][2] = "FAILED") ]_vars

C7_Witness ==
    /\ last.item > 0
    /\ last.exc = "FileNotFoundError"
    /\ ~last.ret
    /\ StatusOf(last.item) = "FAILED"

\* C8: papermill's prerequisite check comes before the loop; when it fails the
\* process exits 1 with nothing checked, run or recorded; nothing else keeps
\* the batch from running, and a batch that reaches the summary has checked
\* every notebook.
C8_PrerequisiteGate ==
    script = "run_notebooks_papermill" =>
        /\ prereq = "failed" =>
              /\ pc = "aborted" /\ exit_code = 1 /\ ~importable
              /\ existed = <<>> /\ results = <<>> /\ \A i \in 1..N : calls[i] = 0
        /\ pc = "aborted" => prereq = "failed"
        /\ (pc # "main") <=> (prereq # "unchecked")
        /\ existed # <<>> => prereq \in {"present", "installed"}
        /\ pc = "done" => Len(existed) = N /\ Len(results) = N

C8_Witness ==
    /\ script = "run_notebooks_papermill"
    /\ prereq = "failed"
    /\ pc = "aborted" /\ exit_code = 1

\* C9: once the loop has started, the batch reaches the summary and exits.
C9_BatchTerminates == (pc = "loop") ~> (pc = "done")

\* C10: the report is one line per declared item, then the three counts
\* (success, failure, skipped) and the total duration.
C10_ReportShape ==
    pc = "done" =>
        /\ Len(report) = N + 4
        /\ \A i \in 1..N : report[i].kind = "item" /\ report[i].name = Notebooks[i]
        /\ \A i \in (N + 1)..(N + 3) : report[i].kind = "count"
        /\ report[N + 1].n = CountStatus(results, "SUCCESS")
        /\ report[N + 2].n = CountStatus(results, "FAILED")
        /\ report[N + 3].n = CountStatus(results, "SKIPPED")
        /\ report[N + 4].kind = "time"

RECURSIVE SumSeq(_)
SumSeq(q) == IF q = <<>> THEN 0 ELSE Head(q) + SumSeq(Tail(q))

\* runner invocations started and not yet recorded in results
InFlight == SumSeq(calls) - (Len(results) - CountStatus(results, "SKIPPED"))

\* C11: execution is strictly sequential. At most one runner invocation is in
\* flight, it is the one main() is blocked on, and an item is checked (skipped
\* or run) only when every earlier item has its outcome in results.
C11_StrictlySequential ==
    /\ InFlight \in {0, 1}
    /\ (InFlight = 1) <=> (pc = "running" /\ inflight.state = "call")
    /\ Len(existed) = Len(results) + InFlight
    /\ pc = "running" => idx = Len(existed)

C11_Witness ==
    /\ pc = "running" /\ InFlight = 1
    /\ idx = 3 /\ Len(results) = 2
    /\ StatusOf(1) = "FAILED" /\ StatusOf(2) = "SKIPPED"

\* the error text a failed invocation captured: e.stderr of a
\* CalledProcessError, str(e) of any other exception
Captured(out) ==
    IF IsInstance(out.exc, "CalledProcessError") THEN out.stderr ELSE out.msg

\* C12: the diagnostic a failed runner invocation shows is the captured error
\* text when that has at most 500 characters, and its last 500 characters
\* otherwise, in every batch script.
C12_DiagnosticBounded ==
    [][ (pc = "running" /\ pc' = "loop" /\ inflight.exc # "none") =>
            last'.diag = (IF Len(Captured(inflight)) > DiagBudget
                          THEN LastChars(Captured(inflight), DiagBudget)
                          ELSE Captured(inflight)) ]_vars

\* C13: download_datasets.main attempts every declared dataset once, in
\* declaration order, whatever the earlier downloads did: when the process has
\* exited, success_count + len(failed) is the number of datasets and the exit
\* status is 1 exactly when a download failed.  This is for every way the
\* download command can fail (a directory that cannot be created is not one).
C13_EveryDatasetAttempted ==
    /\ dl.attempts = [i \in 1..Len(dl.attempts) |-> Datasets[i].name]
    /\ (dl.pc \in {"done", "aborted"} /\ dl.uncaught # "OSError") =>
          /\ Len(dl.attempts) = Len(Datasets)
          /\ dl.success_count + Len(dl.failed) = Len(Datasets)
          /\ (dl.exit_code = 1) <=> (dl.failed # <<>>)

\* a cell the clustering rewrite may touch: a code cell that passes its test
ClMatches(cell) ==
    /\ cell.cell_type = "code"
    /\ Mentions(cell.source, ClImport) /\ Mentions(cell.source, ClSetup)
    /\ ~Mentions(cell.source, Fold)

\* a cell the time-series rewrite may touch
TsMatches(cell) ==
    /\ cell.cell_type = "code"
    /\ Mentions(cell.source, TsSetup) /\ Mentions(cell.source, TsFh)
    /\ ~Mentions(cell.source, Fold)

\* C14: the rewrites are idempotent. Once the script has run, running it
\* again changes no cell of either notebook (so no further fold=3 line is
\* inserted); and a cell that is not a code cell, contains 'fold=' or does not
\* pass the test of its rewrite is never modified.
C14_RewritesIdempotent ==
    /\ [][nb.runs >= 1 =>
            /\ nb'.clustering = nb.clustering
            /\ nb'.timeseries = nb.timeseries]_vars
    /\ [](/\ \A i \in 1..Len(nb.orig.clustering) :
                ~ClMatches(nb.orig.clustering[i]) =>
                    nb.clustering[i] = nb.orig.clustering[i]
          /\ \A i \in 1..Len(nb.orig.timeseries) :
                ~TsMatches(nb.orig.timeseries[i]) =>
                    nb.timeseries[i] = nb.orig.timeseries[i])

\* the script ran twice on a time-series cell into which its first run
\* inserted a fold=3 line, and on the shipped clustering cell it rewrote
C14_Witness ==
    /\ nb.pc = "end" /\ nb.runs = 2
    /\ Len(nb.timeseries) = 1
    /\ nb.orig.timeseries[1].source = <<"ts_setup = setup(", NL, "fh=24", ",">>
    /\ nb.timeseries[1].source =
          <<"ts_setup = setup(", NL, "fh=24", ",", NL>> \o TsFoldLine
    /\ nb.clustering[1].source =
          <<"from pycaret.clustering import *", NL>> \o ClNew

=============================================================================
